---- MODULE Spec2Model ----
(***************************************************************************)
(* Black Star autonomous agent: the Executor's bounded-retry step loop,    *)
(* the Error Handler's circuit breaker, the Perception Layer ("Six Eyes")  *)
(* and the Orchestrator's lifecycle, modelled from the TypeScript sources. *)
(*                                                                         *)
(* Atomicity follows the JavaScript event loop: an action runs a handler   *)
(* from the point where an awaited collaborator call settles up to the     *)
(* next await on a collaborator (or to the handler's return).              *)
(***************************************************************************)
EXTENDS Integers, Sequences, FiniteSets, TLC

\* ------------------------------------------------------------------ bounds
MaxOrders == 2          \* order ids 1..MaxOrders exist
MaxSteps  == 4          \* longest plan handed to executeProject (Executor harness)
MaxPlanSteps == 1       \* longest plan the planner returns to the pipeline
MaxRuns   == 4          \* executeProject invocations on one ProjectState (Executor harness)
CallCap   == 5          \* ghost call counters saturate here
MaxPaymentSteps == 1    \* payment-setup steps in one plan
MaxApproveCalls == 1    \* approveDeployment requests in flight at once
MaxFragments == 3       \* keyword fragments in a requirements text given to detectPlatforms
MaxStimuli == 6         \* processStimulus calls made on one ConsciousnessEngine

\* --------------------------------------------------------- program constants
maxRetries == 3                 \* Executor.maxRetries
MAX_CONSECUTIVE_FAILURES == 3   \* ErrorHandler.MAX_CONSECUTIVE_FAILURES

OrderIds == 1..MaxOrders

VARIABLES
  mockMode,      \* config.isMockMode (fixed at start-up)
  ps,            \* ProjectState objects, by order id
  registered,    \* keys of BlackStarOrchestrator.activeProjects
  ex,            \* activation of Executor.executeProject, by order id
  coderCalls,    \* ghost: executeStep invocations per order and step
  paymentCalls,  \* ghost: automatePaymentSetup invocations from the step loop
  runs,          \* ghost: executeProject invocations per order
  runLimit,      \* harness: how often the caller invokes executeProject
  tick,          \* ghost: parity of the collaborator calls settled in the step loop
  sx,            \* activation of PerceptionLayer.runSixEyes: arguments, position, results
  gateLog,       \* ghost: the gates invoked by the current runSixEyes call, in order
  reasoningCalls, \* ghost: generateContent calls made by docVerify in the current call

  pipe,          \* activation of executeOrderAsync, by order id
  calls,         \* activations of approveDeployment, by request slot
  last,          \* ghost: the last turn of the Orchestrator (who, order, invoked, answer)
  state,         \* ConsciousnessEngine.state, in thousandths
  stimuli        \* ghost: processStimulus calls made so far

execVars == <<ps, ex, coderCalls, paymentCalls, runs, runLimit, tick>>

eyesVars == <<sx, gateLog, reasoningCalls>>

orchVars == <<registered, pipe, calls, last>>

mindVars == <<state, stimuli>>

vars == <<mockMode, execVars, eyesVars, orchVars, mindVars>>

\* ------------------------------------------------------------------ helpers
Min(a, b) == IF a < b THEN a ELSE b

Bump(n) == Min(n + 1, CallCap)

\* PlanStep as the planner creates it: status pending, retries 0, no code.
\* payment: step.title contains "payment" or "stripe" (case-insensitively).
NewStep(pay) == [status |-> "pending", retries |-> 0, payment |-> pay, code |-> "none"]

\* The plans Planner.generatePlan can return: any number of fresh steps.
FreshPlansUpTo(longest) ==
  { plan \in UNION { [1..n -> {NewStep(TRUE), NewStep(FALSE)}] : n \in 0..longest } :
      Cardinality({k \in 1..Len(plan) : plan[k].payment}) <= MaxPaymentSteps }

FreshPlans == FreshPlansUpTo(MaxSteps)

\* ProjectState as receiveOrder constructs it.
NewProjectState ==
  [status |-> "planning", requirements |-> << >>, plan |-> << >>, currentStep |-> 0,
   failureCount |-> 0, platforms |-> << >>, stripeProductId |-> FALSE]

\* No executeProject activation.  log is a ghost: the outcomes of the steps
\* processed so far by this activation, in order.  changes is a ghost: the
\* pairs <<old, new>> of the step.status assignments of this activation that
\* changed the value.
IdleFrame ==
  [pc |-> "idle", i |-> 1, consecutiveFailures |-> 0, ret |-> "none", log |-> << >>,
   changes |-> {}]

\* The frame after `step.status = new` on a step whose status was old.
Noted(f, old, new) == [f EXCEPT !.changes = IF old = new THEN @ ELSE @ \cup {<<old, new>>}]

\* ------------------------------------------------------------ Error Handler
\* Faulty variant: the breaker trips one failure late.
shouldHaltLate(p) == p.failureCount > MAX_CONSECUTIVE_FAILURES

shouldHalt(p) == p.failureCount >= MAX_CONSECUTIVE_FAILURES

\* ----------------------------------------------------------------- Executor
AllCompleted(plan) == \A k \in 1..Len(plan) : plan[k].status = "completed"

\* Faulty variant: one completed step is enough.
FinishSome(p, f) ==
  [p |-> [p EXCEPT !.status = IF \E k \in 1..Len(p.plan) : p.plan[k].status = "completed"
                               THEN "awaiting_approval" ELSE "failed"],
   f |-> [f EXCEPT !.pc = "returned", !.ret = "end"]]

\* After the for loop: all steps completed, or not.
Finish(p, f) ==
  [p |-> [p EXCEPT !.status = IF AllCompleted(p.plan) THEN "awaiting_approval" ELSE "failed"],
   f |-> [f EXCEPT !.pc = "returned", !.ret = "end"]]

RECURSIVE ForLoop(_, _)
RECURSIVE WhileLoop(_, _)
RECURSIVE StepFailed(_, _)

\* Faulty variant: a completed step is executed again.
ForLoopNoSkip(p, f) ==
  IF f.i > Len(p.plan) THEN Finish(p, f)
  ELSE WhileLoop([p EXCEPT !.plan[f.i].status = "in_progress", !.currentStep = f.i - 1],
                 Noted(f, p.plan[f.i].status, "in_progress"))

\* Head of `for (let i = 0; ...)`; f.i is the 1-based index of plan[i].
ForLoop(p, f) ==
  IF f.i > Len(p.plan) THEN Finish(p, f)
  ELSE IF p.plan[f.i].status = "completed" THEN ForLoop(p, [f EXCEPT !.i = f.i + 1])
  ELSE WhileLoop([p EXCEPT !.plan[f.i].status = "in_progress", !.currentStep = f.i - 1],
                 Noted(f, p.plan[f.i].status, "in_progress"))

\* Faulty variant: gives a step up one attempt early.
WhileLoopShort(p, f) ==
  IF p.plan[f.i].retries < maxRetries - 1
  THEN [p |-> p, f |-> [f EXCEPT !.pc = "coder"]]
  ELSE StepFailed(p, f)

\* Head of `while (step.retries < this.maxRetries && !stepSucceeded)` with
\* stepSucceeded false: either the next executeStep call is awaited, or the
\* loop is left with the step not succeeded.
WhileLoop(p, f) ==
  IF p.plan[f.i].retries < maxRetries
  THEN [p |-> p, f |-> [f EXCEPT !.pc = "coder"]]
  ELSE StepFailed(p, f)

\* Faulty variant: the streak counts the attempts of the step, not the step.
StepFailedPerAttempt(p, f) ==
  LET cf == f.consecutiveFailures + maxRetries
      p1 == [p EXCEPT !.plan[f.i].status = "failed", !.failureCount = cf]
      f1 == [Noted(f, p.plan[f.i].status, "failed")
               EXCEPT !.consecutiveFailures = cf, !.log = Append(f.log, "failed")]
  IN IF shouldHalt(p1)
     THEN [p |-> [p1 EXCEPT !.status = "failed"],
           f |-> [f1 EXCEPT !.pc = "returned", !.ret = "halt"]]
     ELSE ForLoop(p1, [f1 EXCEPT !.i = f.i + 1])

\* Faulty variant: a step that ran out of attempts is left in_progress.
StepFailedInProgress(p, f) ==
  LET cf == f.consecutiveFailures + 1
      p1 == [p EXCEPT !.failureCount = cf]
      f1 == [f EXCEPT !.consecutiveFailures = cf, !.log = Append(f.log, "failed")]
  IN IF shouldHalt(p1)
     THEN [p |-> [p1 EXCEPT !.status = "failed"],
           f |-> [f1 EXCEPT !.pc = "returned", !.ret = "halt"]]
     ELSE ForLoop(p1, [f1 EXCEPT !.i = f.i + 1])

\* `if (!stepSucceeded) { ... }`: the step failed, the breaker is consulted.
StepFailed(p, f) ==
  LET cf == f.consecutiveFailures + 1
      p1 == [p EXCEPT !.plan[f.i].status = "failed", !.failureCount = cf]
      f1 == [Noted(f, p.plan[f.i].status, "failed")
               EXCEPT !.consecutiveFailures = cf, !.log = Append(f.log, "failed")]
  IN IF shouldHalt(p1)
     THEN [p |-> [p1 EXCEPT !.status = "failed"],
           f |-> [f1 EXCEPT !.pc = "returned", !.ret = "halt"]]
     ELSE ForLoop(p1, [f1 EXCEPT !.i = f.i + 1])

\* "Mark as succeeded": the while loop ends and the for loop goes on.
StepSucceeded(p, f) ==
  ForLoop([p EXCEPT !.plan[f.i].status = "completed"],
          [Noted(f, p.plan[f.i].status, "completed")
             EXCEPT !.consecutiveFailures = 0, !.i = f.i + 1,
                    !.log = Append(f.log, "completed")])

\* Entry of executeProject up to the first await (or the return).
executeProject(p) ==
  ForLoop([p EXCEPT !.status = "coding"], [IdleFrame EXCEPT !.pc = "run"])

\* What executeStep can answer.  The real path catches every error and
\* answers success=false; the mock path always answers success=true unless
\* saveCodeToWorkspace rejects, which is not caught and leaves executeProject.
CoderOutcomes == IF mockMode THEN {"ok", "throw"} ELSE {"ok", "fail"}

\* Faulty variant: a failed synthesis does not count as an attempt.
AfterCoderNoCount(p, f, outcome) ==
  CASE outcome = "fail" -> WhileLoop(p, f)
    [] outcome = "throw" -> [p |-> p, f |-> [f EXCEPT !.pc = "threw"]]
    [] outcome = "ok" ->
         LET p1 == [p EXCEPT !.plan[f.i].code = "generated"]
         IN IF p.plan[f.i].payment
            THEN [p |-> p1, f |-> [f EXCEPT !.pc = "stripe"]]
            ELSE StepSucceeded(p1, f)

\* executeStep settled: rest of the while body up to the next await.
AfterCoder(p, f, outcome) ==
  CASE outcome = "fail" -> WhileLoop([p EXCEPT !.plan[f.i].retries = @ + 1], f)
    [] outcome = "throw" -> [p |-> p, f |-> [f EXCEPT !.pc = "threw"]]
    [] outcome = "ok" ->
         LET p1 == [p EXCEPT !.plan[f.i].code = "generated"]
         IN IF p.plan[f.i].payment
            THEN [p |-> p1, f |-> [f EXCEPT !.pc = "stripe"]]
            ELSE StepSucceeded(p1, f)

\* What the payment block can do: automatePaymentSetup resolves and the
\* step's code (injected with the link or not) is kept ("ok"), resolves but
\* saving the injected code rejects ("saveFail"), or automatePaymentSetup
\* rejects ("stripeFail", never in mock mode, where the StripeAutomator
\* answers mock identifiers).  step.code is modelled by its presence only, so
\* injecting the link leaves it "generated".
PaymentOutcomes ==
  IF mockMode THEN {"ok", "saveFail"} ELSE {"ok", "saveFail", "stripeFail"}

\* Faulty variant: a failed payment setup is passed over and the step completed
\* without a payment link.
AfterPaymentContinue(p, f, outcome) ==
  CASE outcome = "stripeFail" -> StepSucceeded(p, f)
    [] outcome = "saveFail" ->
         WhileLoop([p EXCEPT !.stripeProductId = TRUE, !.plan[f.i].retries = @ + 1], f)
    [] outcome = "ok" -> StepSucceeded([p EXCEPT !.stripeProductId = TRUE], f)

\* The payment block settled: rest of the while body up to the next await.
AfterPayment(p, f, outcome) ==
  CASE outcome = "stripeFail" -> WhileLoop([p EXCEPT !.plan[f.i].retries = @ + 1], f)
    [] outcome = "saveFail" ->
         WhileLoop([p EXCEPT !.stripeProductId = TRUE, !.plan[f.i].retries = @ + 1], f)
    [] outcome = "ok" -> StepSucceeded([p EXCEPT !.stripeProductId = TRUE], f)

\* Ghost bookkeeping: arriving at pc "coder"/"stripe" is one collaborator call.
CountCalls(o, f) ==
  /\ coderCalls' = IF f.pc = "coder"
                   THEN [coderCalls EXCEPT ![o][f.i] = Bump(@)] ELSE coderCalls
  /\ paymentCalls' = IF f.pc = "stripe"
                     THEN [paymentCalls EXCEPT ![o][f.i] = Bump(@)] ELSE paymentCalls

\* ------------------------------------------------------ Consciousness Engine
\* The homeostatic factors are kept in thousandths: 1000 stands for 1.0.
One == 1000

\* `coefficient * magnitude`, both in thousandths.
Times(coefficient, magnitude) == (coefficient * magnitude) \div One

Max(a, b) == IF a > b THEN a ELSE b

\* The state set by the constructor.
Baseline ==
  [uncertainty |-> 200, confidence |-> 800, resolve |-> 800, willpower |-> 1000,
   guilt |-> 0, currentMood |-> "neutral", needsReflection |-> FALSE]

MindIdle ==
  /\ state = Baseline
  /\ stimuli = 0

StimulusTypes == {"success", "failure", "neutral", "critical_failure"}

\* Magnitudes of the stimuli given in the model: 0.0, 0.5 and 1.0.
Magnitudes == {0, 500, 1000}

handleSuccess(s, magnitude) ==
  [s EXCEPT !.confidence = Min(One, s.confidence + Times(100, magnitude)),
            !.willpower = Min(One, s.willpower + Times(50, magnitude)),
            !.uncertainty = Max(0, s.uncertainty - Times(100, magnitude)),
            !.guilt = Max(0, s.guilt - Times(200, magnitude)),
            !.resolve = Min(One, s.resolve + Times(50, magnitude))]

handleFailure(s, magnitude) ==
  [s EXCEPT !.uncertainty = Min(One, s.uncertainty + Times(200, magnitude)),
            !.confidence = Max(0, s.confidence - Times(150, magnitude)),
            !.guilt = Min(One, s.guilt + Times(300, magnitude)),
            !.willpower = Max(0, s.willpower - Times(250, magnitude)),
            !.resolve = IF s.resolve > 500 THEN s.resolve + 50 ELSE s.resolve - 100]

handleCriticalFailure(s, magnitude) ==
  [s EXCEPT !.guilt = Min(One, s.guilt + Times(400, magnitude)),
            !.confidence = Max(0, s.confidence - Times(300, magnitude)),
            !.willpower = Max(0, s.willpower - Times(300, magnitude)),
            !.uncertainty = Min(One, s.uncertainty + Times(300, magnitude))]

applyHomeostasis(s) ==
  LET drained == [s EXCEPT !.willpower = Max(0, s.willpower - 10)]
  IN [drained EXCEPT !.guilt = Max(0, drained.guilt - 20)]

updateDerivedState(s) ==
  [s EXCEPT !.needsReflection = \/ (s.guilt > 700 /\ s.willpower < 400)
                                \/ s.uncertainty > 800,
            !.currentMood = IF s.guilt > 600 THEN "anxious"
                            ELSE IF s.willpower < 300 THEN "depressed"
                            ELSE IF s.confidence > 800 /\ s.resolve > 800 THEN "determined"
                            ELSE IF s.confidence > 700 THEN "confident"
                            ELSE IF s.resolve > 700 THEN "focused"
                            ELSE "neutral"]

\* processStimulus: the switch on the type, then homeostasis, then the derived state.
processStimulus(s, type, magnitude) ==
  LET handled == CASE type = "success" -> handleSuccess(s, magnitude)
                   [] type = "failure" -> handleFailure(s, magnitude)
                   [] type = "critical_failure" -> handleCriticalFailure(s, magnitude)
                   [] OTHER -> s
  IN updateDerivedState(applyHomeostasis(handled))

\* --------------------------------------------------------- Perception Layer
\* Text is a sequence of one-character strings, so that String.includes and
\* String.toUpperCase are computed, not assumed.
Includes(s, t) ==
  \E a \in 0..(Len(s) - Len(t)) : SubSeq(s, a + 1, a + Len(t)) = t

LowerLetters ==
  <<"a", "b", "c", "d", "e", "f", "g", "h", "i", "j", "k", "l", "m", "n",
   "o", "p", "q", "r", "s", "t", "u", "v", "w", "x", "y", "z">>

UpperLetters ==
  <<"A", "B", "C", "D", "E", "F", "G", "H", "I", "J", "K", "L", "M", "N",
   "O", "P", "Q", "R", "S", "T", "U", "V", "W", "X", "Y", "Z">>

UpperChar(c) ==
  IF \E k \in 1..Len(LowerLetters) : LowerLetters[k] = c
  THEN UpperLetters[CHOOSE k \in 1..Len(LowerLetters) : LowerLetters[k] = c]
  ELSE c

toUpperCase(s) == [k \in 1..Len(s) |-> UpperChar(s[k])]

LowerChar(c) ==
  IF \E k \in 1..Len(UpperLetters) : UpperLetters[k] = c
  THEN LowerLetters[CHOOSE k \in 1..Len(UpperLetters) : UpperLetters[k] = c]
  ELSE c

toLowerCase(s) == [k \in 1..Len(s) |-> LowerChar(s[k])]

VALID == <<"V", "A", "L", "I", "D">>

\* docVerify's knowledge base of deprecated patterns, by API type.
deprecatedPatterns ==
  [stripe |-> { <<"s", "o", "u", "r", "c", "e", ":">>,
                <<"b", "i", "t", "c", "o", "i", "n", "_", "r", "e", "c", "e", "i", "v", "e", "r">>,
                <<"c", "a", "r", "d", ":">> },
   firebase |-> { <<"f", "i", "r", "e", "b", "a", "s", "e", ".", "d", "a", "t", "a", "b", "a", "s", "e", "(", ")">> },
   general |-> {}]

ApiTypes == {"stripe", "firebase", "general"}

\* Generated artifacts handed to runSixEyes.
Artifacts ==
  { << >>,
    <<"p", "a", "y", "(", ")">>,
    <<"c", "a", "r", "d", ":", "1">>,
    <<"C", "a", "r", "d", ":">>,
    <<"{", "s", "o", "u", "r", "c", "e", ":", "t", "}">>,
    <<"b", "i", "t", "c", "o", "i", "n", "_", "r", "e", "c", "e", "i", "v", "e", "r">>,
    <<"f", "i", "r", "e", "b", "a", "s", "e", ".", "d", "a", "t", "a", "b", "a", "s", "e", "(", ")">> }

\* Replies of the reasoning service (Gates A and C).
Responses ==
  { VALID,
    <<"v", "a", "l", "i", "d">>,
    <<"I", "N", "V", "A", "L", "I", "D">>,
    <<"b", "a", "d", " ", "c", "a", "l", "l">>,
    << >> }

\* How an awaited reasoning call settles: with a reply text, or by rejecting.
Replies ==
  { [threw |-> FALSE, text |-> r] : r \in Responses } \cup { [threw |-> TRUE, text |-> << >>] }

\* `let syntaxGate = { passed: true }` / `let visualProof = { passed: true }`:
\* the ValidationResult of a gate that has not run.  ran is a ghost.
Unset == [passed |-> TRUE, error |-> "none", ran |-> FALSE]

\* The ValidationResult a gate returns; error is the kind of its message.
GateResult(passed, error) == [passed |-> passed, error |-> error, ran |-> TRUE]

\* reply is a ghost: how Gate A's reasoning call settled, if it was made.
SixEyesIdle ==
  [pc |-> "idle", code |-> << >>, apiType |-> "general",
   docVerify |-> Unset, syntaxGate |-> Unset, visualProof |-> Unset,
   overallPassed |-> FALSE, reply |-> << >>]

\* Faulty variant: the results are combined with "or".
FinishSixEyesAny(x) ==
  [x EXCEPT !.pc = "done",
            !.overallPassed = x.docVerify.passed \/ x.syntaxGate.passed \/ x.visualProof.passed]

\* runSixEyes: overallPassed and the returned SixEyesResult.
FinishSixEyes(x) ==
  [x EXCEPT !.pc = "done",
            !.overallPassed = x.docVerify.passed /\ x.syntaxGate.passed /\ x.visualProof.passed]

\* Faulty variant: the syntax check is started whatever docVerify answered.
AfterDocVerifyAlways(x) == [x EXCEPT !.pc = "gateB"]

\* runSixEyes after `await this.docVerify(...)`: Gate B only if Gate A passed.
AfterDocVerify(x) ==
  IF x.docVerify.passed THEN [x EXCEPT !.pc = "gateB"] ELSE FinishSixEyes(x)

\* Faulty variant: the visual check is started whatever syntaxGate answered.
AfterSyntaxGateAlways(x) == [x EXCEPT !.pc = "gateC"]

\* runSixEyes after `await this.syntaxGate(...)`: Gate C only if Gate B passed.
AfterSyntaxGate(x) ==
  IF x.syntaxGate.passed THEN [x EXCEPT !.pc = "gateC"] ELSE FinishSixEyes(x)

\* docVerify's loop over the deprecated patterns of the API type.
DenyListHit(code, apiType) ==
  \E pattern \in deprecatedPatterns[apiType] : Includes(code, pattern)

\* Faulty variant: the reasoning service is asked before the patterns are tried.
DocVerifyStartEager(x) == [x EXCEPT !.pc = "gateA"]

\* docVerify up to its first await: a deny-list hit returns passed=false at
\* once, otherwise generateContent is awaited.
DocVerifyStart(x) ==
  IF DenyListHit(x.code, x.apiType)
  THEN AfterDocVerify([x EXCEPT !.docVerify = GateResult(FALSE, "Deprecated API pattern detected")])
  ELSE [x EXCEPT !.pc = "gateA"]

\* docVerify after generateContent settled (reply text, or an exception).
DocVerifyAnswer(reply) ==
  IF reply.threw THEN GateResult(FALSE, "Doc verification error")
  ELSE IF Includes(toUpperCase(reply.text), VALID) THEN GateResult(TRUE, "none")
  ELSE GateResult(Includes(toUpperCase(reply.text), VALID),
                  IF Includes(reply.text, VALID) THEN "none" ELSE "API verification issue")

\* visualProof: the browser or the vision call failed, or the reply decides.
VisualProofAnswer(reply) ==
  IF reply.threw THEN GateResult(FALSE, "Visual proof error")
  ELSE IF Includes(toUpperCase(reply.text), VALID) THEN GateResult(TRUE, "none")
  ELSE GateResult(FALSE, "Visual verification failed")

\* runSixEyes(code, workspaceDir, serverUrl, apiType) is called.
RunSixEyes ==
  /\ sx.pc \in {"idle", "done"}
  /\ \E code \in Artifacts, apiType \in ApiTypes :
       LET x == DocVerifyStart([SixEyesIdle EXCEPT !.code = code, !.apiType = apiType])
       IN /\ sx' = x
          /\ reasoningCalls' = IF x.pc = "gateA" THEN 1 ELSE 0
          /\ gateLog' = IF x.pc = "gateB" THEN <<"A", "B">> ELSE <<"A">>
  /\ UNCHANGED <<mockMode, mindVars, execVars, orchVars>>

\* Gate A's generateContent call settles.
DocVerifySettles ==
  /\ sx.pc = "gateA"
  /\ \E reply \in Replies :
       LET x == AfterDocVerify([sx EXCEPT !.docVerify = DocVerifyAnswer(reply),
                                          !.reply = <<reply>>])
       IN /\ sx' = x
          /\ gateLog' = IF x.pc = "gateB" THEN Append(gateLog, "B") ELSE gateLog
  /\ UNCHANGED <<mockMode, mindVars, execVars, orchVars, reasoningCalls>>

\* syntaxGate: the compiler process closes with an exit code, or cannot be run.
SyntaxGateAnswer(exit) ==
  CASE exit = "0" -> GateResult(TRUE, "none")
    [] exit = "error" -> GateResult(FALSE, "Failed to run TypeScript compiler")
    [] OTHER -> GateResult(FALSE, "TypeScript compilation failed")

\* Gate B settles.
SyntaxGateSettles ==
  /\ sx.pc = "gateB"
  /\ \E exit \in {"0", "1", "2", "error"} :
       LET x == AfterSyntaxGate([sx EXCEPT !.syntaxGate = SyntaxGateAnswer(exit)])
       IN /\ sx' = x
          /\ gateLog' = IF x.pc = "gateC" THEN Append(gateLog, "C") ELSE gateLog
  /\ UNCHANGED <<mockMode, mindVars, execVars, orchVars, reasoningCalls>>

\* Gate C settles.
VisualProofSettles ==
  /\ sx.pc = "gateC"
  /\ \E reply \in Replies :
       sx' = FinishSixEyes([sx EXCEPT !.visualProof = VisualProofAnswer(reply)])
  /\ UNCHANGED <<mockMode, mindVars, execVars, orchVars, gateLog, reasoningCalls>>

EyesIdle ==
  /\ sx = SixEyesIdle
  /\ gateLog = << >>
  /\ reasoningCalls = 0

\* ------------------------------------------------------ Logistics Executor
Has(list, x) == \E k \in 1..Len(list) : list[k] = x

\* Faulty variant: the Android check is made first and nothing is defaulted.
detectPlatformsAndroidFirst(requirements) ==
  LET reqLower == toLowerCase(requirements)
      inc(t) == Includes(reqLower, t)
      web == inc(<<"w", "e", "b">>)
      android == inc(<<"a", "n", "d", "r", "o", "i", "d">>) \/ inc(<<"a", "p", "p">>)
  IN (IF android THEN <<"android">> ELSE << >>) \o (IF web THEN <<"web">> ELSE << >>)

\* detectPlatforms: keyword classification of the requirements text.
detectPlatforms(requirements) ==
  LET reqLower == toLowerCase(requirements)
      inc(t) == Includes(reqLower, t)
      web == \/ inc(<<"w", "e", "b">>)
             \/ inc(<<"w", "e", "b", "s", "i", "t", "e">>)
             \/ inc(<<"l", "a", "n", "d", "i", "n", "g", " ", "p", "a", "g", "e">>)
             \/ inc(<<"v", "e", "r", "c", "e", "l">>)
             \/ (~inc(<<"a", "n", "d", "r", "o", "i", "d">>) /\ ~inc(<<"m", "o", "b", "i", "l", "e", " ", "a", "p", "p">>))
      android == \/ inc(<<"a", "n", "d", "r", "o", "i", "d">>)
                 \/ inc(<<"m", "o", "b", "i", "l", "e", " ", "a", "p", "p">>)
                 \/ (inc(<<"a", "p", "p">>) /\ ~inc(<<"w", "e", "b", " ", "a", "p", "p">>))
      platforms == (IF web THEN <<"web">> ELSE << >>) \o (IF android THEN <<"android">> ELSE << >>)
  IN IF Len(platforms) = 0 THEN <<"web">> ELSE platforms

\* Requirements texts of the orders submitted in the model:
\* "Shop", "Android game", "an app".
Requirements ==
  { <<"S", "h", "o", "p">>,
    <<"A", "n", "d", "r", "o", "i", "d", " ", "g", "a", "m", "e">>,
    <<"a", "n", " ", "a", "p", "p">> }

\* `projectState.platforms || ['web']`
PlatformsOrDefault(p) == IF p.platforms = << >> THEN <<"web">> ELSE p.platforms

\* ------------------------------------------------------------ Orchestrator
NoPipeline == [pc |-> "none", web |-> "none", android |-> "none", overallSuccess |-> TRUE]

\* The record kept in `last`: who ran the last turn, for which order, the
\* collaborators it invoked and the answer it gave to its caller, if any.
\* url is the deployment URL text of a successful approveDeployment answer,
\* as the list of its lines.  via lists the values projectState.status held
\* during the turn: the one the turn found, then each value the turn assigned.
Turn(by, o, invoked, result) ==
  [by |-> by, order |-> o, invoked |-> invoked, answer |-> result, url |-> << >>,
   via |-> << >>]

NoTurn == Turn("none", 0, {}, "none")

\* The three production-release entry points.
Deploys == {"deployWebProduction", "deployAndroidProduction", "deployProject"}

\* Faulty variant: the catch block reports the error and keeps the status.
CatchKeepsStatus(p, b, n) ==
  [p |-> p, b |-> [b EXCEPT !.pc = "catchReport"], n |-> n \cup {"sendErrorReport"}]

\* catch block of executeOrderAsync: status failed, then sendErrorReport.
Catch(p, b, n) ==
  [p |-> [p EXCEPT !.status = "failed"], b |-> [b EXCEPT !.pc = "catchReport"],
   n |-> n \cup {"sendErrorReport"}]

\* End of buildAllPlatforms (it sets the status itself) and the Orchestrator's
\* reaction: a failed build is reported, a successful one awaits approval.
EndBuild(p, b, n) ==
  IF b.overallSuccess
  THEN [p |-> [p EXCEPT !.status = "awaiting_approval"], b |-> [b EXCEPT !.pc = "approvalRequest"],
        n |-> n \cup {"sendApprovalRequest"}]
  ELSE [p |-> [p EXCEPT !.status = "failed"], b |-> [b EXCEPT !.pc = "errorReport"],
        n |-> n \cup {"sendErrorReport"}]

\* buildAllPlatforms, "Build Android": getPackageName is awaited first.
BuildAndroid(p, b, n) ==
  IF Has(PlatformsOrDefault(p), "android")
  THEN [p |-> p, b |-> [b EXCEPT !.pc = "buildPackageName"], n |-> n \cup {"getPackageName"}]
  ELSE EndBuild(p, b, n)

\* buildAllPlatforms up to its first await.  In mock mode every requested
\* platform is reported built without calling a builder.
buildAllPlatforms(p, b, n) ==
  LET platforms == PlatformsOrDefault(p)
  IN IF mockMode
     THEN EndBuild(p, [b EXCEPT !.overallSuccess = TRUE,
                                !.web = IF Has(platforms, "web") THEN "ok" ELSE "none",
                                !.android = IF Has(platforms, "android") THEN "ok" ELSE "none"], n)
     ELSE IF Has(platforms, "web")
          THEN [p |-> p, b |-> [b EXCEPT !.overallSuccess = TRUE, !.pc = "buildWeb"],
                n |-> n \cup {"deployAndVerify"}]
          ELSE BuildAndroid(p, [b EXCEPT !.overallSuccess = TRUE], n)

\* Faulty variant: a failed web build does not clear overallSuccess.
AfterWebBuildLenient(p, b, outcome) ==
  IF outcome = "ok"
  THEN BuildAndroid(p, [b EXCEPT !.web = "ok"], {})
  ELSE BuildAndroid(p, [b EXCEPT !.web = "failed"], {})

\* deployAndVerify settled ("ok", "failed") or rejected ("throw").
AfterWebBuild(p, b, outcome) ==
  IF outcome = "ok"
  THEN BuildAndroid(p, [b EXCEPT !.web = "ok"], {})
  ELSE BuildAndroid(p, [b EXCEPT !.web = "failed", !.overallSuccess = FALSE], {})

\* getPackageName settled: with a package name or with null.
AfterPackageName(p, b, found) ==
  IF found
  THEN [p |-> p, b |-> [b EXCEPT !.pc = "buildAndroid"], n |-> {"verifyAndDeploy"}]
  ELSE EndBuild(p, [b EXCEPT !.android = "failed", !.overallSuccess = FALSE], {})

\* Faulty variant: a failed Android build does not clear overallSuccess.
AfterAndroidBuildLenient(p, b, outcome) ==
  IF outcome = "ok"
  THEN EndBuild(p, [b EXCEPT !.android = "ok"], {})
  ELSE EndBuild(p, [b EXCEPT !.android = "failed"], {})

\* verifyAndDeploy settled ("ok", "failed") or rejected ("throw").
AfterAndroidBuild(p, b, outcome) ==
  IF outcome = "ok"
  THEN EndBuild(p, [b EXCEPT !.android = "ok"], {})
  ELSE EndBuild(p, [b EXCEPT !.android = "failed", !.overallSuccess = FALSE], {})

\* Faulty variant: the build phase is entered whatever the Executor returned.
AfterExecuteAlways(p, f, b, n) ==
  IF f.pc = "threw" THEN Catch(p, b, n)
  ELSE buildAllPlatforms([p EXCEPT !.status = "building",
                                   !.platforms = detectPlatforms(p.requirements)],
                         b, n \cup {"detectPlatforms", "buildAllPlatforms"})

\* executeOrderAsync after `await this.executor.executeProject(...)`.
AfterExecute(p, f, b, n) ==
  IF f.pc = "threw" THEN Catch(p, b, n)
  ELSE IF p.status = "failed"
       THEN [p |-> p, b |-> [b EXCEPT !.pc = "errorReport"],
             n |-> n \cup {"createErrorReport", "sendErrorReport"}]
       ELSE buildAllPlatforms([p EXCEPT !.status = "building",
                                        !.platforms = detectPlatforms(p.requirements)],
                              b, n \cup {"detectPlatforms", "buildAllPlatforms"})

\* The collaborator an executeProject activation is waiting on.
ExecInvoked(f) ==
  IF f.pc = "coder" THEN {"generateCode"}
  ELSE IF f.pc = "stripe" THEN {"automatePaymentSetup"}
  ELSE {}

\* The pipeline goes on in the same turn once executeProject has ended.
ContinuePipeline(p, f, b, n) ==
  IF f.pc \in {"returned", "threw"} THEN AfterExecute(p, f, b, n)
  ELSE [p |-> p, b |-> b, n |-> n \cup ExecInvoked(f)]

\* getProjectStatus: the registered state, or null (the empty sequence).
getProjectStatus(orderId) == IF orderId \in registered THEN <<ps[orderId]>> ELSE << >>

\* The status values getStatistics has a counter for ('building' has none).
CountedStatuses ==
  {"planning", "coding", "validating", "awaiting_approval", "deploying", "completed", "failed"}

\* getStatistics: the number of registered projects, and of those in each status.
getStatistics ==
  [k \in {"total"} \cup CountedStatuses |->
     IF k = "total" THEN Cardinality(registered)
     ELSE Cardinality({o \in registered : ps[o].status = k})]

\* Faulty variant: the pipeline is started on a state that was never registered.
ReceiveOrderUnregistered(o) ==
  /\ o \notin registered
  /\ \E req \in Requirements :
       ps' = [ps EXCEPT ![o] = [NewProjectState EXCEPT !.requirements = req]]
  /\ pipe[o].pc = "none"
  /\ pipe' = [pipe EXCEPT ![o] = [NoPipeline EXCEPT !.pc = "plan"]]
  /\ last' = [Turn("receiveOrder", o, {"generatePlan"}, "state")
                EXCEPT !.via = <<"planning", "planning">>]
  /\ UNCHANGED <<mockMode, mindVars, ex, coderCalls, paymentCalls, runs, runLimit, tick, eyesVars, calls,
                 registered>>

\* receiveOrder: the state is registered and the pipeline started; the
\* pipeline runs up to `await this.planner.generatePlan(...)`.
ReceiveOrder(o) ==
  /\ o \notin registered
  /\ \E req \in Requirements :
       ps' = [ps EXCEPT ![o] = [NewProjectState EXCEPT !.requirements = req]]
  /\ registered' = registered \cup {o}
  /\ pipe' = [pipe EXCEPT ![o] = [NoPipeline EXCEPT !.pc = "plan"]]
  /\ last' = [Turn("receiveOrder", o, {"generatePlan"}, "state")
                EXCEPT !.via = <<"planning", "planning">>]
  /\ UNCHANGED <<mockMode, mindVars, ex, coderCalls, paymentCalls, runs, runLimit, tick, eyesVars, calls>>

\* generatePlan settled (it answers a fallback plan instead of rejecting).
PlanSettlesWith(o, plan) ==
  /\ pipe[o].pc = "plan"
  /\ ps' = [ps EXCEPT ![o].plan = plan]
  /\ pipe' = [pipe EXCEPT ![o].pc = "savePlan"]
  /\ last' = Turn("pipeline", o, {"savePlanToFile"}, "none")
  /\ UNCHANGED <<mockMode, mindVars, ex, coderCalls, paymentCalls, runs, runLimit, tick, eyesVars,
                 registered, calls>>

PlanSettles(o) == \E plan \in FreshPlansUpTo(MaxPlanSteps) : PlanSettlesWith(o, plan)

\* The status values of a pipeline turn through executeProject: entry are
\* the values assigned before the Executor's part r of the turn, which
\* assigns one when it returns; the pipeline then goes to the catch block,
\* returns, or sets building and starts the build, which leaves c.
StatusesVia(found, entry, r, c) ==
  <<found>> \o entry
    \o (IF r.f.pc = "returned" THEN <<r.p.status>> ELSE << >>)
    \o (IF r.f.pc = "returned" /\ r.p.status # "failed" THEN <<"building">> ELSE << >>)
    \o (IF r.f.pc \in {"returned", "threw"} THEN <<c.p.status>> ELSE << >>)

\* One turn of the pipeline inside or right after executeProject: r is the
\* Executor's result for this turn, n the collaborators invoked before it.
\* The activation's locals are gone once executeProject has ended; the
\* collaborators it invoked are recorded in the turn.  x is that result and c
\* what the rest of the turn makes of it, each computed once.
PipelineTurn(o, r, n, entry) ==
  \E x \in {r} :
    \E c \in {ContinuePipeline(x.p, x.f, [pipe[o] EXCEPT !.pc = "execute"], n)} :
       /\ ps' = [ps EXCEPT ![o] = c.p]
       /\ pipe' = [pipe EXCEPT ![o] = c.b]
       /\ last' = [Turn("pipeline", o, c.n, "none")
                    EXCEPT !.via = StatusesVia(ps[o].status, entry, x, c)]
       /\ ex' = [ex EXCEPT ![o] = IF x.f.pc \in {"returned", "threw"}
                                  THEN [IdleFrame EXCEPT !.pc = x.f.pc] ELSE x.f]
       /\ UNCHANGED <<coderCalls, paymentCalls>>

\* savePlanToFile settled: executeProject is entered, or the catch block.
SavePlanSettles(o) ==
  /\ pipe[o].pc = "savePlan"
  /\ \/ /\ PipelineTurn(o, executeProject([ps[o] EXCEPT !.status = "coding"]), {"executeProject"},
                        <<"coding", "coding">>)
        /\ runs' = [runs EXCEPT ![o] = @ + 1]
     \/ /\ LET c == Catch(ps[o], pipe[o], {})
           IN /\ ps' = [ps EXCEPT ![o] = c.p]
              /\ pipe' = [pipe EXCEPT ![o] = c.b]
              /\ last' = [Turn("pipeline", o, c.n, "none")
                           EXCEPT !.via = <<ps[o].status, c.p.status>>]
        /\ UNCHANGED <<ex, coderCalls, paymentCalls, runs>>
  /\ UNCHANGED <<mockMode, mindVars, runLimit, tick, eyesVars, registered, calls>>

\* executeStep settled inside the pipeline's executeProject.
PipeCoderSettles(o) ==
  /\ pipe[o].pc = "execute" /\ ex[o].pc = "coder"
  /\ \E outcome \in CoderOutcomes : PipelineTurn(o, AfterCoder(ps[o], ex[o], outcome), {}, << >>)
  /\ UNCHANGED <<mockMode, mindVars, runs, runLimit, tick, eyesVars, registered, calls>>

\* The payment block settled inside the pipeline's executeProject.
PipePaymentSettles(o) ==
  /\ pipe[o].pc = "execute" /\ ex[o].pc = "stripe"
  /\ \E outcome \in PaymentOutcomes : PipelineTurn(o, AfterPayment(ps[o], ex[o], outcome), {}, << >>)
  /\ UNCHANGED <<mockMode, mindVars, runs, runLimit, tick, eyesVars, registered, calls>>

\* A build that kept its result on the shared LogisticsExecutor instead of on the
\* ProjectState it was passed: every project would see the latest build's status.
BuildTurnShared(o, c) ==
  /\ ps' = [q \in OrderIds |-> IF q = o THEN c.p ELSE [ps[q] EXCEPT !.status = c.p.status]]
  /\ pipe' = [pipe EXCEPT ![o] = c.b]
  /\ last' = [Turn("pipeline", o, c.n, "none") EXCEPT !.via = <<ps[o].status, c.p.status>>]
  /\ UNCHANGED <<mockMode, mindVars, ex, coderCalls, paymentCalls, runs, runLimit, tick, eyesVars,
                 registered, calls>>

\* A turn of the pipeline outside executeProject.
BuildTurn(o, c) ==
  /\ ps' = [ps EXCEPT ![o] = c.p]
  /\ pipe' = [pipe EXCEPT ![o] = c.b]
  /\ last' = [Turn("pipeline", o, c.n, "none") EXCEPT !.via = <<ps[o].status, c.p.status>>]
  /\ UNCHANGED <<mockMode, mindVars, ex, coderCalls, paymentCalls, runs, runLimit, tick, eyesVars,
                 registered, calls>>

\* executeOrderAsync returns.
Return(p, b) == [p |-> p, b |-> [b EXCEPT !.pc = "done"], n |-> {}]

WebBuildSettles(o) ==
  /\ pipe[o].pc = "buildWeb"
  /\ \E outcome \in {"ok", "failed", "throw"} : BuildTurn(o, AfterWebBuild(ps[o], pipe[o], outcome))

PackageNameSettles(o) ==
  /\ pipe[o].pc = "buildPackageName"
  /\ \/ \E found \in BOOLEAN : BuildTurn(o, AfterPackageName(ps[o], pipe[o], found))
     \/ BuildTurn(o, AfterAndroidBuild(ps[o], pipe[o], "throw"))

AndroidBuildSettles(o) ==
  /\ pipe[o].pc = "buildAndroid"
  /\ \E outcome \in {"ok", "failed", "throw"} : BuildTurn(o, AfterAndroidBuild(ps[o], pipe[o], outcome))

\* sendErrorReport of the pipeline settled: the pipeline returns, or the
\* rejection lands in the catch block.
ErrorReportSettles(o) ==
  /\ pipe[o].pc = "errorReport"
  /\ \/ BuildTurn(o, Return(ps[o], pipe[o]))
     \/ BuildTurn(o, Catch(ps[o], pipe[o], {}))

\* sendApprovalRequest settled.
ApprovalRequestSettles(o) ==
  /\ pipe[o].pc = "approvalRequest"
  /\ \/ BuildTurn(o, Return(ps[o], pipe[o]))
     \/ BuildTurn(o, Catch(ps[o], pipe[o], {}))

\* sendErrorReport of the catch block settled; its rejection is swallowed.
CatchReportSettles(o) ==
  /\ pipe[o].pc = "catchReport"
  /\ BuildTurn(o, Return(ps[o], pipe[o]))

\* ------------------------------------------------- approveDeployment calls
ApproveCalls == 1..MaxApproveCalls

\* seen is the status the call found at its guard; deployed is a ghost: the
\* outcome of each production deploy the call has made.
IdleCall ==
  [pc |-> "idle", order |-> 0, seen |-> "none", allDeploymentsSucceeded |-> TRUE,
   deploymentUrls |-> << >>, deployed |-> [web |-> "none", android |-> "none", legacy |-> "none"]]

\* The approval guard weakened to "not failed".
ApproveGuardNotFailed(p) == p.status # "failed"

\* `projectState.status !== 'awaiting_approval'` answers an error.
ApproveGuard(p) == p.status = "awaiting_approval"

\* The call returns and the route answers the request.
Answer(p, d, success) ==
  [p |-> p, k |-> IdleCall, d |-> d, a |-> IF success THEN "success" ELSE "failure", u |-> << >>]

\* `return { success: true, url: deploymentUrl }`
Succeed(p, k) == [Answer(p, {}, TRUE) EXCEPT !.u = k.deploymentUrls]

\* The call waits on a collaborator it has just invoked.
Await(p, k, d, pc, collaborator) ==
  [p |-> p, k |-> [k EXCEPT !.pc = pc], d |-> d \cup {collaborator}, a |-> "none", u |-> << >>]

\* Faulty variant: only the legacy deployment decides.
AfterLegacyOnly(p, k, d, legacySuccess) ==
  IF legacySuccess
  THEN Await(p, [k EXCEPT !.deployed.legacy = "ok"], d, "confirm", "sendDeploymentConfirmation")
  ELSE Await(p, [k EXCEPT !.deployed.legacy = "failed"], d, "approveErrorReport", "sendErrorReport")

\* After `await this.executor.deployProject(...)`.
AfterLegacy(p, k, d, legacySuccess) ==
  LET k1 == [k EXCEPT !.deployed.legacy = IF legacySuccess THEN "ok" ELSE "failed"]
  IN IF k.allDeploymentsSucceeded /\ legacySuccess
     THEN Await(p, k1, d, "confirm", "sendDeploymentConfirmation")
     ELSE Await(p, k1, d, "approveErrorReport", "sendErrorReport")

\* Executor.deployProject up to its await: with a Stripe product the live
\* payment setup is awaited, without one the project is completed at once.
deployProject(p, k, d) ==
  LET p1 == [p EXCEPT !.status = "deploying"]
      d1 == d \cup {"deployProject"}
  IN IF p.stripeProductId
     THEN Await(p1, k, d1, "liveStripe", "automatePaymentSetup")
     ELSE AfterLegacy([p1 EXCEPT !.status = "completed"], k, d1, TRUE)

\* automatePaymentSetup (live) settled inside deployProject.
AfterLiveStripe(p, k, outcome) ==
  IF outcome = "ok"
  THEN AfterLegacy([p EXCEPT !.status = "completed"], k, {}, TRUE)
  ELSE AfterLegacy(p, k, {}, FALSE)

\* "Deploy Android to Google Play Internal", then the legacy deployment.
DeployAndroid(p, k, d) ==
  IF Has(PlatformsOrDefault(p), "android")
  THEN Await(p, k, d, "deployAndroid", "deployAndroidProduction")
  ELSE deployProject(p, k, d)

\* Faulty variant: a request that fails the guard is reported by e-mail.
approveDeploymentReporting(isRegistered, p, k) ==
  IF ~isRegistered \/ ~ApproveGuard(p) THEN Answer(p, {"sendErrorReport"}, FALSE)
  ELSE LET k1 == [k EXCEPT !.seen = p.status, !.allDeploymentsSucceeded = TRUE]
       IN IF Has(PlatformsOrDefault(p), "web")
          THEN Await(p, k1, {}, "deployWeb", "deployWebProduction")
          ELSE DeployAndroid(p, k1, {})

\* approveDeployment up to its first await.
approveDeployment(isRegistered, p, k) ==
  IF ~isRegistered THEN Answer(p, {}, FALSE)
  ELSE IF ~ApproveGuard(p) THEN Answer(p, {}, FALSE)
  ELSE LET k1 == [k EXCEPT !.seen = p.status, !.allDeploymentsSucceeded = TRUE]
       IN IF Has(PlatformsOrDefault(p), "web")
          THEN Await(p, k1, {}, "deployWeb", "deployWebProduction")
          ELSE DeployAndroid(p, k1, {})

\* deployWebProduction / deployAndroidProduction settled: "ok", "failed",
\* or "throw" (caught by approveDeployment's catch, which answers).
AfterWebDeploy(p, k, outcome) ==
  IF outcome = "throw" THEN Answer(p, {}, FALSE)
  ELSE IF outcome = "ok"
       THEN DeployAndroid(p, [k EXCEPT !.deploymentUrls = Append(@, "Web"),
                                       !.deployed.web = "ok"], {})
       ELSE DeployAndroid(p, [k EXCEPT !.allDeploymentsSucceeded = FALSE,
                                       !.deployed.web = "failed"], {})

AfterAndroidDeploy(p, k, outcome) ==
  IF outcome = "throw" THEN Answer(p, {}, FALSE)
  ELSE IF outcome = "ok"
       THEN deployProject(p, [k EXCEPT !.deploymentUrls = Append(@, "Android"),
                                       !.deployed.android = "ok"], {})
       ELSE deployProject(p, [k EXCEPT !.allDeploymentsSucceeded = FALSE,
                                       !.deployed.android = "failed"], {})

\* A project state to read for an id that is not registered.
StateOf(o) == IF o \in registered THEN ps[o] ELSE NewProjectState

\* One turn of an approveDeployment call on order o.
ApproveTurn(c, o, r) ==
  /\ calls' = [calls EXCEPT ![c] = r.k]
  /\ ps' = IF o \in registered THEN [ps EXCEPT ![o] = r.p] ELSE ps
  /\ last' = [Turn("approveDeployment", o, r.d, r.a)
                EXCEPT !.url = r.u,
                       !.via = IF o \notin registered THEN << >>
                               ELSE IF "deployProject" \in r.d
                                    THEN <<ps[o].status, "deploying", r.p.status>>
                                    ELSE <<ps[o].status, r.p.status>>]
  /\ UNCHANGED <<mockMode, mindVars, ex, coderCalls, paymentCalls, runs, runLimit, tick, eyesVars,
                 registered, pipe>>

\* A request is served by the first free call slot.
ApproveDeployment(c, o) ==
  /\ calls[c].pc = "idle"
  /\ \A b \in 1..(c - 1) : calls[b].pc # "idle"
  /\ ApproveTurn(c, o, approveDeployment(o \in registered, StateOf(o),
                                         [IdleCall EXCEPT !.order = o]))

WebDeploySettles(c) ==
  /\ calls[c].pc = "deployWeb"
  /\ LET o == calls[c].order
     IN \E outcome \in {"ok", "failed", "throw"} :
          ApproveTurn(c, o, AfterWebDeploy(ps[o], calls[c], outcome))

AndroidDeploySettles(c) ==
  /\ calls[c].pc = "deployAndroid"
  /\ LET o == calls[c].order
     IN \E outcome \in {"ok", "failed", "throw"} :
          ApproveTurn(c, o, AfterAndroidDeploy(ps[o], calls[c], outcome))

\* The mock payment setup never fails.
LiveStripeOutcomes == IF mockMode THEN {"ok"} ELSE {"ok", "throw"}

LiveStripeSettles(c) ==
  /\ calls[c].pc = "liveStripe"
  /\ LET o == calls[c].order
     IN \E outcome \in LiveStripeOutcomes :
          ApproveTurn(c, o, AfterLiveStripe(ps[o], calls[c], outcome))

\* sendDeploymentConfirmation settled: success, or the catch's failure.
ConfirmSettles(c) ==
  /\ calls[c].pc = "confirm"
  /\ LET o == calls[c].order
     IN \/ ApproveTurn(c, o, Succeed(ps[o], calls[c]))
        \/ ApproveTurn(c, o, Answer(ps[o], {}, FALSE))

\* sendErrorReport settled: failure either way.
ApproveErrorReportSettles(c) ==
  /\ calls[c].pc = "approveErrorReport"
  /\ LET o == calls[c].order
     IN ApproveTurn(c, o, Answer(ps[o], {}, FALSE))

\* Faulty variant: only a project that awaits approval can be rejected.
rejectDeploymentAwaiting(isRegistered, p) ==
  IF ~isRegistered \/ p.status # "awaiting_approval" THEN [p |-> p, a |-> "failure"]
  ELSE [p |-> [p EXCEPT !.status = "failed"], a |-> "success"]

\* rejectDeployment: a registered project fails, whatever its status.
rejectDeployment(isRegistered, p) ==
  IF ~isRegistered THEN [p |-> p, a |-> "failure"]
  ELSE [p |-> [p EXCEPT !.status = "failed"], a |-> "success"]

\* A deploy-reject request is served in one turn.
RejectDeployment(o) ==
  /\ LET r == rejectDeployment(o \in registered, StateOf(o))
     IN /\ last' = [Turn("rejectDeployment", o, {}, r.a)
                     EXCEPT !.via = IF o \in registered THEN <<ps[o].status, r.p.status>>
                                    ELSE << >>]
        /\ ps' = IF o \in registered THEN [ps EXCEPT ![o] = r.p] ELSE ps
  /\ UNCHANGED <<mockMode, mindVars, ex, coderCalls, paymentCalls, runs, runLimit, tick, eyesVars,
                 registered, pipe, calls>>

\* No order received, no request in flight.
OrchIdle ==
  /\ registered = {}
  /\ pipe = [o \in OrderIds |-> NoPipeline]
  /\ calls = [c \in ApproveCalls |-> IdleCall]
  /\ last = NoTurn

\* ------------------------------------------------- Executor test harness
\* A caller invokes executeProject on the ProjectState of order o, again and
\* again (resume), each time after the previous activation has ended.
ExecInvoke(o) ==
  /\ ex[o].pc \in {"idle", "returned", "threw"}
  /\ runs[o] < runLimit
  /\ \E r \in {executeProject(ps[o])} :
        /\ ps' = [ps EXCEPT ![o] = r.p]
        /\ ex' = [ex EXCEPT ![o] = r.f]
        /\ CountCalls(o, r.f)
  /\ runs' = [runs EXCEPT ![o] = @ + 1]
  /\ UNCHANGED <<mockMode, mindVars, runLimit, tick, eyesVars, orchVars>>

ExecCoderReturns(o) ==
  /\ ex[o].pc = "coder"
  /\ \E outcome \in CoderOutcomes :
       \E r \in {AfterCoder(ps[o], ex[o], outcome)} :
          /\ ps' = [ps EXCEPT ![o] = r.p]
          /\ ex' = [ex EXCEPT ![o] = r.f]
          /\ CountCalls(o, r.f)
  /\ tick' = 1 - tick
  /\ UNCHANGED <<mockMode, mindVars, runs, runLimit, eyesVars, orchVars>>

ExecPaymentReturns(o) ==
  /\ ex[o].pc = "stripe"
  /\ \E outcome \in PaymentOutcomes :
       \E r \in {AfterPayment(ps[o], ex[o], outcome)} :
          /\ ps' = [ps EXCEPT ![o] = r.p]
          /\ ex' = [ex EXCEPT ![o] = r.f]
          /\ CountCalls(o, r.f)
  /\ tick' = 1 - tick
  /\ UNCHANGED <<mockMode, mindVars, runs, runLimit, eyesVars, orchVars>>

ZeroCalls == [o \in OrderIds |-> [k \in 1..(MaxSteps + 1) |-> 0]]

InitExecWith(limit) ==
  /\ runLimit = limit
  /\ mockMode \in BOOLEAN
  /\ MindIdle
  /\ \E plan \in FreshPlans :
       ps = [o \in OrderIds |-> IF o = 1 THEN [NewProjectState EXCEPT !.plan = plan]
                                ELSE NewProjectState]
  /\ OrchIdle
  /\ ex = [o \in OrderIds |-> IdleFrame]
  /\ coderCalls = ZeroCalls
  /\ paymentCalls = ZeroCalls
  /\ runs = [o \in OrderIds |-> 0]
  /\ tick = 0
  /\ EyesIdle

\* executeProject is invoked up to MaxRuns times on the same ProjectState.
InitExec == InitExecWith(MaxRuns)

\* executeProject is invoked once, as by the Orchestrator's pipeline.
InitExecOnce == InitExecWith(1)

NextExec == ExecInvoke(1) \/ ExecCoderReturns(1) \/ ExecPaymentReturns(1)

SpecExec == InitExec /\ [][NextExec]_vars

\* One activation in which every awaited collaborator call settles.
SpecExecFair ==
  /\ InitExecOnce /\ [][NextExec]_vars
  /\ WF_vars(ExecCoderReturns(1)) /\ WF_vars(ExecPaymentReturns(1))

\* ------------------------------------------- Perception Layer test harness
ExecIdle ==
  /\ ps = [o \in OrderIds |-> NewProjectState]
  /\ ex = [o \in OrderIds |-> IdleFrame]
  /\ coderCalls = ZeroCalls
  /\ paymentCalls = ZeroCalls
  /\ runs = [o \in OrderIds |-> 0]
  /\ runLimit = 0
  /\ tick = 0

InitEyes ==
  /\ mockMode = FALSE
  /\ MindIdle
  /\ OrchIdle
  /\ ExecIdle
  /\ EyesIdle

NextEyes == RunSixEyes \/ DocVerifySettles \/ SyntaxGateSettles \/ VisualProofSettles

SpecEyes == InitEyes /\ [][NextEyes]_vars

\* ------------------------------------------------------------ The service
\* One order is submitted, under id 1; the other ids stay unknown.
Submitted == {1}

Init ==
  /\ mockMode \in BOOLEAN
  /\ MindIdle
  /\ OrchIdle
  /\ ExecIdle
  /\ EyesIdle

Next ==
  \/ \E o \in Submitted :
       \/ ReceiveOrder(o)
       \/ PlanSettles(o)
       \/ SavePlanSettles(o)
       \/ PipeCoderSettles(o)
       \/ PipePaymentSettles(o)
       \/ WebBuildSettles(o)
       \/ PackageNameSettles(o)
       \/ AndroidBuildSettles(o)
       \/ ErrorReportSettles(o)
       \/ ApprovalRequestSettles(o)
       \/ CatchReportSettles(o)
  \/ \E c \in ApproveCalls :
       \/ \E o \in OrderIds : ApproveDeployment(c, o)
       \/ WebDeploySettles(c)
       \/ AndroidDeploySettles(c)
       \/ LiveStripeSettles(c)
       \/ ConfirmSettles(c)
       \/ ApproveErrorReportSettles(c)
  \/ \E o \in OrderIds : RejectDeployment(o)

Spec == Init /\ [][Next]_vars

\* The background pipeline left alone: no approval and no rejection arrives,
\* and every collaborator call the pipeline awaits settles.
NextPipeline ==
  \E o \in Submitted :
    \/ ReceiveOrder(o)
    \/ PlanSettles(o)
    \/ SavePlanSettles(o)
    \/ PipeCoderSettles(o)
    \/ PipePaymentSettles(o)
    \/ WebBuildSettles(o)
    \/ PackageNameSettles(o)
    \/ AndroidBuildSettles(o)
    \/ ErrorReportSettles(o)
    \/ ApprovalRequestSettles(o)
    \/ CatchReportSettles(o)

SpecPipelineFair ==
  /\ Init /\ [][NextPipeline]_vars
  /\ \A o \in Submitted :
       /\ WF_vars(PlanSettles(o)) /\ WF_vars(SavePlanSettles(o))
       /\ WF_vars(PipeCoderSettles(o)) /\ WF_vars(PipePaymentSettles(o))
       /\ WF_vars(WebBuildSettles(o)) /\ WF_vars(PackageNameSettles(o))
       /\ WF_vars(AndroidBuildSettles(o))
       /\ WF_vars(ErrorReportSettles(o)) /\ WF_vars(ApprovalRequestSettles(o))
       /\ WF_vars(CatchReportSettles(o))

\* Two orders in flight at once.  Both pipelines run under every interleaving; the
\* first order is also approved (one request at a time) and rejected while the
\* second one's pipeline runs.  The plan is one payment step, so that the size of
\* the scenario comes from the interleaving and not from the plans.
Pair == {1, 2}

PairPlans == {<<NewStep(TRUE)>>}

PipelineOf(o) ==
  \/ ReceiveOrder(o)
  \/ \E plan \in PairPlans : PlanSettlesWith(o, plan)
  \/ SavePlanSettles(o)
  \/ PipeCoderSettles(o)
  \/ PipePaymentSettles(o)
  \/ WebBuildSettles(o)
  \/ PackageNameSettles(o)
  \/ AndroidBuildSettles(o)
  \/ ErrorReportSettles(o)
  \/ ApprovalRequestSettles(o)
  \/ CatchReportSettles(o)

RequestsOnFirst ==
  \/ RejectDeployment(1)
  \/ ApproveDeployment(1, 1)
  \/ WebDeploySettles(1)
  \/ AndroidDeploySettles(1)
  \/ LiveStripeSettles(1)
  \/ ConfirmSettles(1)
  \/ ApproveErrorReportSettles(1)

NextIsolation ==
  \/ PipelineOf(1)
  \/ PipelineOf(2)
  \/ RequestsOnFirst

SpecIsolation == Init /\ [][NextIsolation]_vars

\* Two approval requests for the same order can be in flight at once: the
\* pipeline of order 1 runs to its end and the order is approved through two
\* call slots.
OverlapCalls == 1..2

InitOverlap ==
  /\ mockMode \in BOOLEAN
  /\ MindIdle
  /\ registered = {}
  /\ pipe = [o \in OrderIds |-> NoPipeline]
  /\ calls = [c \in OverlapCalls |-> IdleCall]
  /\ last = NoTurn
  /\ ExecIdle
  /\ EyesIdle

NextOverlap ==
  \/ PipelineOf(1)
  \/ \E c \in OverlapCalls :
       \/ ApproveDeployment(c, 1)
       \/ WebDeploySettles(c)
       \/ AndroidDeploySettles(c)
       \/ LiveStripeSettles(c)
       \/ ConfirmSettles(c)
       \/ ApproveErrorReportSettles(c)

SpecOverlap == InitOverlap /\ [][NextOverlap]_vars

\* ---------------------------------------------- detectPlatforms on its own
\* Pieces of requirements text: the keywords detectPlatforms looks for, in
\* mixed case, a separator and a word it does not look for.
Fragments ==
  { <<"w", "e", "b">>,
    <<"A", "n", "d", "r", "o", "i", "d">>,
    <<"m", "o", "b", "i", "l", "e", " ", "a", "p", "p">>,
    <<"W", "e", "b", " ", "A", "p", "p">>,
    <<"a", "p", "p">>,
    <<"v", "e", "r", "c", "e", "l">>,
    <<"l", "a", "n", "d", "i", "n", "g", " ", "p", "a", "g", "e">>,
    <<" ">>,
    <<"s", "h", "o", "p">> }

RECURSIVE TextsUpTo(_)
TextsUpTo(n) ==
  IF n = 0 THEN {<< >>}
  ELSE LET shorter == TextsUpTo(n - 1)
       IN shorter \cup {t \o f : t \in shorter, f \in Fragments}

DetectTexts == TextsUpTo(MaxFragments)

\* Order 1 is registered with some requirements text; nothing has run yet.
InitDetect ==
  /\ mockMode \in BOOLEAN
  /\ MindIdle
  /\ registered = {1}
  /\ pipe = [o \in OrderIds |-> NoPipeline]
  /\ calls = [c \in ApproveCalls |-> IdleCall]
  /\ last = NoTurn
  /\ ps \in {[o \in OrderIds |-> IF o = 1 THEN [NewProjectState EXCEPT !.requirements = t]
                                          ELSE NewProjectState] : t \in DetectTexts}
  /\ ex = [o \in OrderIds |-> IdleFrame]
  /\ coderCalls = ZeroCalls
  /\ paymentCalls = ZeroCalls
  /\ runs = [o \in OrderIds |-> 0]
  /\ runLimit = 0
  /\ tick = 0
  /\ EyesIdle

\* `projectState.platforms = this.logisticsExecutor.detectPlatforms(projectState.requirements)`
DetectPlatformsCall ==
  /\ ps[1].platforms = << >>
  /\ ps' = [ps EXCEPT ![1].platforms = detectPlatforms(ps[1].requirements)]
  /\ UNCHANGED <<mockMode, mindVars, ex, coderCalls, paymentCalls, runs, runLimit, tick, eyesVars, orchVars>>

SpecDetect == InitDetect /\ [][DetectPlatformsCall]_vars

\* ----------------------------------------------- the engine on its own
\* A fresh ConsciousnessEngine beside an idle agent.
InitEngine ==
  /\ mockMode = FALSE
  /\ MindIdle
  /\ OrchIdle
  /\ ExecIdle
  /\ EyesIdle

\* One call of processStimulus, with any type and a magnitude in [0, 1].
ProcessStimulus ==
  /\ stimuli < MaxStimuli
  /\ \E type \in StimulusTypes, magnitude \in Magnitudes :
       state' = processStimulus(state, type, magnitude)
  /\ stimuli' = stimuli + 1
  /\ UNCHANGED <<mockMode, execVars, eyesVars, orchVars>>

SpecEngine == InitEngine /\ [][ProcessStimulus]_vars

\* =============================================================== properties
\* C1 -- Production release is gated by human approval.  Whenever a turn has
\* invoked deployWebProduction, deployAndroidProduction or
\* Executor.deployProject, it was a turn of an approveDeployment call on a
\* registered order (never a turn of receiveOrder, of the background
\* pipeline or of rejectDeployment), and every approveDeployment call that is
\* past its guard found its project registered with status awaiting_approval.
C1_DeployOnlyAfterApproval ==
  /\ (last.invoked \cap Deploys # {}) =>
        /\ last.by = "approveDeployment"
        /\ last.order \in registered
        /\ \E c \in ApproveCalls : calls[c].pc # "idle" /\ calls[c].order = last.order
  /\ \A c \in ApproveCalls :
        calls[c].pc # "idle" =>
          calls[c].order \in registered /\ calls[c].seen = "awaiting_approval"

\* An approved two-platform project: the web deploy has failed and the call
\* has gone on to the Android deploy, after a pipeline that returned.
C1_Witness ==
  /\ last.by = "approveDeployment" /\ last.order = 1
  /\ last.invoked = {"deployAndroidProduction"}
  /\ pipe[1].pc = "done"
  /\ \E c \in ApproveCalls : calls[c].pc = "deployAndroid" /\ ~calls[c].allDeploymentsSucceeded

\* Length of the run of "failed" entries at the end of a step-outcome log.
RECURSIVE TrailingFails(_)
TrailingFails(log) ==
  IF log = << >> \/ log[Len(log)] # "failed" THEN 0
  ELSE 1 + TrailingFails(SubSeq(log, 1, Len(log) - 1))

Awaiting(o) == ex[o].pc \in {"coder", "stripe"}

Returned(o) == ex[o].pc = "returned"

\* Steps k, k+1, k+2 of the plan have all failed.
ThreeFailedFrom(p, k) ==
  /\ k + 2 <= Len(p.plan)
  /\ \A j \in k..(k + 2) : p.plan[j].status = "failed"

\* The Coder failed on all three attempts of step k.
CoderFailedThrice(o, k) ==
  /\ k <= Len(ps[o].plan)
  /\ ps[o].plan[k].status = "failed"
  /\ ps[o].plan[k].retries = maxRetries
  /\ ps[o].plan[k].code = "none"
  /\ coderCalls[o][k] = 3

\* C2: circuit breaker.  Whenever three consecutive steps have failed, the
\* activation of executeProject has returned with state.status = failed (it
\* is not waiting for the Coder or the payment set-up); and in the run that
\* started from the planner's fresh plan every step after the third failed
\* one is still pending and was never passed to the Coder.
C2_CircuitBreaker ==
  \A o \in OrderIds : \A k \in 1..MaxSteps + 1 :
    ThreeFailedFrom(ps[o], k) =>
      /\ Returned(o)
      /\ ps[o].status = "failed"
      /\ runs[o] = 1 =>
           /\ ex[o].ret = "halt"
           /\ \A j \in (k + 3)..Len(ps[o].plan) :
                ps[o].plan[j].status = "pending" /\ coderCalls[o][j] = 0

C2_Witness ==
  /\ runs[1] = 1 /\ Returned(1) /\ ex[1].ret = "halt"
  /\ Len(ps[1].plan) >= 4
  /\ ThreeFailedFrom(ps[1], 1)
  /\ ps[1].plan[4].status = "pending"

\* C3: over any sequence of executeProject invocations on one ProjectState
\* whose steps started with retries = 0, executeStep is invoked at most 3
\* times for any one step.
C3_AtMostThreeAttempts ==
  \A o \in OrderIds : \A k \in 1..MaxSteps + 1 : coderCalls[o][k] <= maxRetries

\* C4: in the run on the planner's fresh plan the stored failure streak
\* (failureCount) is 0 right after a step completed and otherwise counts the
\* consecutive failed steps ending at the last processed step, while
\* executeProject waits for a collaborator and when it has returned.
C4_FailureStreak ==
  \A o \in OrderIds :
    (runs[o] = 1 /\ (Awaiting(o) \/ Returned(o))) =>
      ps[o].failureCount = TrailingFails(ex[o].log)

C7_ExecuteProjectTerminates ==
  \A o \in OrderIds : Awaiting(o) ~> (ex[o].pc \in {"returned", "threw"})

\* executeProject returned although every Coder call of the run failed.
C7_Witness ==
  /\ Returned(1) /\ runs[1] = 1
  /\ Len(ps[1].plan) >= 3
  /\ \A k \in 1..3 : CoderFailedThrice(1, k)

\* The gates of a SixEyesResult, by their letter.
GateOf(x, g) ==
  CASE g = "A" -> x.docVerify [] g = "B" -> x.syntaxGate [] g = "C" -> x.visualProof

InLog(g) == \E k \in 1..Len(gateLog) : gateLog[k] = g

\* C8: Six Eyes short-circuit.  The gates of one runSixEyes call are invoked
\* in the order A, B, C; Gate B is invoked only if Gate A passed, Gate C only
\* if Gates A and B passed; after a failing Gate A neither B nor C is invoked.
C8_ShortCircuit ==
  /\ gateLog \in { << >>, <<"A">>, <<"A", "B">>, <<"A", "B", "C">> }
  /\ InLog("B") => (sx.docVerify.ran /\ sx.docVerify.passed)
  /\ InLog("C") => /\ sx.docVerify.ran /\ sx.docVerify.passed
                   /\ sx.syntaxGate.ran /\ sx.syntaxGate.passed
  /\ (sx.docVerify.ran /\ ~sx.docVerify.passed) =>
       (sx.pc = "done" /\ gateLog = <<"A">>)

\* Gate A failed on the reasoning service's answer; B and C were not invoked.
C8_Witness ==
  /\ sx.pc = "done"
  /\ sx.docVerify.error = "API verification issue"
  /\ ~sx.docVerify.passed
  /\ gateLog = <<"A">>

\* C9: when runSixEyes has returned, overallPassed is true if and only if
\* every gate that was invoked passed.
C9_OverallPassed ==
  sx.pc = "done" =>
    (sx.overallPassed <=> \A g \in {"A", "B", "C"} : InLog(g) => GateOf(sx, g).passed)

\* Gate A passed, Gate B failed, Gate C was skipped: overallPassed is false.
C9_Witness ==
  /\ sx.pc = "done"
  /\ gateLog = <<"A", "B">>
  /\ sx.docVerify.passed /\ ~sx.syntaxGate.passed
  /\ ~sx.overallPassed

\* C10: Gate A deny-list short-circuit.  When the artifact contains a
\* deny-listed substring of its API type, docVerify has answered
\* passed=false without any call to the reasoning service; the reasoning
\* service is called only when no pattern of that API type matches.
C10_DenyListShortCircuit ==
  LET hit == \E pattern \in deprecatedPatterns[sx.apiType] : Includes(sx.code, pattern)
  IN /\ (sx.pc # "idle" /\ hit) =>
          /\ reasoningCalls = 0
          /\ sx.pc = "done"
          /\ sx.docVerify.ran /\ ~sx.docVerify.passed
     /\ reasoningCalls > 0 => ~hit

\* A Stripe artifact containing "card:" was rejected without a reasoning call.
C10_Witness ==
  /\ sx.pc = "done"
  /\ sx.apiType = "stripe"
  /\ Includes(sx.code, <<"c", "a", "r", "d", ":">>)
  /\ ~sx.docVerify.passed
  /\ reasoningCalls = 0

\* The collaborators of the Notifier.
Notifications == {"sendApprovalRequest", "sendErrorReport", "sendDeploymentConfirmation"}

\* C11: an approveDeployment request for an unknown order id, or for a
\* project whose status is not awaiting_approval, is answered with a failure
\* in the same turn, and that turn invokes no collaborator (no deploy, no
\* notifier), changes no field of any ProjectState, registers nothing and
\* leaves every pipeline and every other approveDeployment call as it was.
C11_RefusedApprovalHasNoEffect ==
  [][ \A c \in ApproveCalls, o \in OrderIds :
        (ApproveDeployment(c, o) /\ (o \notin registered \/ ps[o].status # "awaiting_approval"))
          => /\ last'.by = "approveDeployment" /\ last'.order = o
             /\ last'.answer = "failure"
             /\ last'.invoked = {}
             /\ ps' = ps /\ registered' = registered
             /\ pipe' = pipe /\ calls' = calls /\ ex' = ex ]_vars

\* A request for order 1 was refused while its pipeline was still coding.
C11_Witness ==
  /\ last.by = "approveDeployment" /\ last.order = 1
  /\ last.answer = "failure" /\ last.invoked = {}
  /\ 1 \in registered /\ ps[1].status = "coding"
  /\ pipe[1].pc = "execute"
  /\ \A c \in ApproveCalls : calls[c].pc = "idle"

\* The production deploy of every platform detected for project p has
\* succeeded in call k.
DeploysOk(k, p) ==
  \A platform \in {"web", "android"} :
    Has(PlatformsOrDefault(p), platform) => k.deployed[platform] = "ok"

\* C12: an approveDeployment call that passed its guard invokes
\* sendDeploymentConfirmation, and answers success, only if the production
\* deploy of every detected platform succeeded in that call; once the deploy
\* of a detected platform has failed, the call never invokes
\* sendDeploymentConfirmation and its answer is a failure.
C12_SuccessOnlyIfEveryDeploySucceeded ==
  [][ /\ ("sendDeploymentConfirmation" \in last'.invoked) =>
             /\ last'.by = "approveDeployment"
             /\ \E c \in ApproveCalls : calls'[c].pc = "confirm" /\ calls'[c].order = last'.order
      /\ \A c \in ApproveCalls :
            /\ calls'[c].pc = "confirm" => DeploysOk(calls'[c], ps'[calls'[c].order])
            /\ (calls[c].pc # "idle" /\ calls'[c].pc = "idle") =>
                 /\ last'.by = "approveDeployment" /\ last'.order = calls[c].order
                 /\ last'.answer \in {"success", "failure"}
                 /\ last'.answer = "success" =>
                      (calls[c].pc = "confirm" /\ DeploysOk(calls[c], ps[calls[c].order]))
                 /\ ~DeploysOk(calls[c], ps[calls[c].order]) => last'.answer = "failure" ]_vars

\* Both platforms of order 1 were deployed and the call answered success.
C12_Witness ==
  /\ last.by = "approveDeployment" /\ last.order = 1
  /\ last.answer = "success"
  /\ last.url = <<"Web", "Android">>
  /\ ps[1].platforms = <<"web", "android">>

\* Call c returns in this step.
Returns(c) == calls[c].pc # "idle" /\ calls'[c].pc = "idle"

\* C13: Scenario C.  When the web build of a project whose only platform is
\* web succeeds, every step of its plan is completed and its status becomes
\* awaiting_approval.  When the legacy deployment of an approveDeployment
\* call succeeds the status becomes completed, and a call on such a project
\* in which every deploy (web and legacy) succeeded answers success with a
\* non-empty URL.
C13_ScenarioC ==
  [][ /\ \A o \in OrderIds :
            (pipe[o].web # "ok" /\ pipe'[o].web = "ok" /\ ps'[o].platforms = <<"web">>) =>
              /\ AllCompleted(ps'[o].plan)
              /\ ps'[o].status = "awaiting_approval"
      /\ \A c \in ApproveCalls :
            /\ (calls[c].deployed.legacy # "ok" /\ calls'[c].deployed.legacy = "ok") =>
                 ps'[calls'[c].order].status = "completed"
            /\ ( /\ Returns(c)
                 /\ ps[calls[c].order].platforms = <<"web">>
                 /\ calls[c].deployed.web = "ok" /\ calls[c].deployed.legacy = "ok" ) =>
                 (last'.answer = "success" /\ last'.url # << >>) ]_vars

\* buildAllPlatforms was called for order o and has returned.
BuildReturned(o) ==
  /\ ps[o].platforms # << >>
  /\ pipe[o].pc \notin {"buildWeb", "buildPackageName", "buildAndroid"}

\* The build result of a platform in the MultiPlatformBuildResult of order o.
BuildResult(o, platform) == IF platform = "web" THEN pipe[o].web ELSE pipe[o].android

\* C14: when buildAllPlatforms has returned, overallSuccess is the logical
\* AND of the build results of the requested platforms: it is true exactly
\* when every requested platform was built successfully (so a failing
\* Android build gives false even if the web build succeeded).
C14_OverallSuccessIsAnd ==
  \A o \in OrderIds :
    BuildReturned(o) =>
      (pipe[o].overallSuccess <=>
         \A k \in 1..Len(ps[o].platforms) : BuildResult(o, ps[o].platforms[k]) = "ok")

\* Web was built, Android failed: overallSuccess is false.
C14_Witness ==
  /\ BuildReturned(1)
  /\ ps[1].platforms = <<"web", "android">>
  /\ pipe[1].web = "ok" /\ pipe[1].android = "failed"
  /\ ~pipe[1].overallSuccess

\* C15: a failed platform build ends the multi-platform build at once: while
\* buildAllPlatforms waits for a platform builder no requested platform has
\* failed, and a build with a failed platform has returned overallSuccess
\* false with status failed.
C15_BuildFailsImmediately ==
  \A o \in OrderIds :
    /\ pipe[o].pc \in {"buildWeb", "buildPackageName", "buildAndroid"} =>
         pipe[o].web # "failed" /\ pipe[o].android # "failed"
    /\ pipe[o].pc = "errorReport" /\ "failed" \in {pipe[o].web, pipe[o].android} =>
         ~pipe[o].overallSuccess /\ ps[o].status = "failed"

\* C16: idempotent resume.  Whatever executeProject does, on its first or a
\* repeated invocation, a step that is completed keeps its status, retries
\* and artifact, and neither the Coder nor the payment setup is invoked for
\* it.
C16_IdempotentResume ==
  [][\A k \in 1..Len(ps[1].plan) :
       ps[1].plan[k].status = "completed" =>
         /\ ps'[1].plan[k] = ps[1].plan[k]
         /\ coderCalls'[1][k] = coderCalls[1][k]
         /\ paymentCalls'[1][k] = paymentCalls[1][k]]_vars

\* The second invocation has skipped the completed step 1 (this activation
\* has processed no step yet) and waits for the Coder on step 2.
C16_Witness ==
  /\ runs[1] = 2
  /\ Len(ps[1].plan) >= 2
  /\ ps[1].plan[1].status = "completed" /\ coderCalls[1][1] = 1
  /\ ex[1].pc = "coder" /\ ex[1].i = 2 /\ ex[1].log = << >>

\* The text mentions the word, whatever the case of its letters.
Mentions(text, word) == Includes(toLowerCase(text), word)

\* C17: Scenario A.  Once the pipeline has stored the result of
\* detectPlatforms, a project whose requirements mention neither "android"
\* nor "web" has exactly the platform web.
C17_ScenarioA ==
  \A o \in OrderIds :
    ( /\ ps[o].platforms # << >>
      /\ ~Mentions(ps[o].requirements, <<"a", "n", "d", "r", "o", "i", "d">>)
      /\ ~Mentions(ps[o].requirements, <<"w", "e", "b">>) )
    => ps[o].platforms = <<"web">>

\* The edges of the lifecycle, and the move to failed from anywhere.
Lifecycle == <<"planning", "coding", "building", "awaiting_approval", "deploying", "completed">>

LifecycleEdge(from, to) ==
  \/ to = "failed"
  \/ \E k \in 1..(Len(Lifecycle) - 1) : Lifecycle[k] = from /\ Lifecycle[k + 1] = to

\* C18: every change of a project's status follows an edge of the lifecycle
\* planning, coding, building, awaiting_approval, deploying, completed, or
\* goes to failed: each value a turn assigns to status is the value before
\* it, its lifecycle successor, or failed.
C18_StatusFollowsLifecycle ==
  \A k \in 1..(Len(last.via) - 1) :
    last.via[k] # last.via[k + 1] => LifecycleEdge(last.via[k], last.via[k + 1])

\* C19: notifier calls are fire-and-forget.  The turn in which
\* sendApprovalRequest, sendErrorReport or sendDeploymentConfirmation settles,
\* successfully or not, leaves the project's status as it was, and
\* approveDeployment answers what the deploys decided: success after the
\* confirmation, failure after the error report.
C19_NotifierFireAndForget ==
  [][/\ \A o \in OrderIds :
          (pipe[o].pc \in {"approvalRequest", "errorReport", "catchReport"} /\ pipe'[o] # pipe[o])
          => ps'[o].status = ps[o].status
     /\ \A c \in ApproveCalls :
          (calls[c].pc \in {"confirm", "approveErrorReport"} /\ calls'[c] # calls[c])
          => /\ ps'[calls[c].order].status = ps[calls[c].order].status
             /\ last'.by = "approveDeployment"
             /\ last'.answer = IF calls[c].pc = "confirm" THEN "success" ELSE "failure"]_vars

\* C20: rejectDeployment on a registered order id sets that project's status
\* to failed and answers success; on an unknown id it answers failure and
\* changes nothing.  Either way it invokes no collaborator and touches no
\* other project, no running pipeline or approval call and no step.
C20_RejectDeployment ==
  [][\A o \in OrderIds :
       RejectDeployment(o) =>
         /\ last'.by = "rejectDeployment" /\ last'.order = o /\ last'.invoked = {}
         /\ IF o \in registered
            THEN /\ last'.answer = "success"
                 /\ ps' = [ps EXCEPT ![o].status = "failed"]
            ELSE /\ last'.answer = "failure"
                 /\ ps' = ps
         /\ UNCHANGED <<registered, pipe, calls, ex, coderCalls, paymentCalls>>]_vars

\* A project that awaited approval was rejected.
C20_Witness ==
  /\ last.by = "rejectDeployment" /\ last.order = 1 /\ last.answer = "success"
  /\ last.via = <<"awaiting_approval", "failed">>
  /\ ps[1].status = "failed"

\* C21: when every collaborator call settles and no approval or rejection
\* arrives, every order receiveOrder accepted reaches status
\* awaiting_approval or failed: it does not stay in planning, coding or
\* building for ever.
C21_PipelineReachesVerdict ==
  \A o \in OrderIds :
    (o \in registered) ~> (ps[o].status \in {"awaiting_approval", "failed"})

\* The pipeline of order 1 has returned with the project awaiting approval
\* after a build of both platforms.
C21_Witness ==
  /\ 1 \in registered /\ pipe[1].pc = "done"
  /\ ps[1].status = "awaiting_approval"
  /\ pipe[1].web = "ok" /\ pipe[1].android = "ok"

\* The edges of a step's state machine.
StepEdges ==
  {<<"pending", "in_progress">>, <<"in_progress", "completed">>, <<"in_progress", "failed">>}

\* A step that is completed, or failed with its retries exhausted.
Terminal(step) ==
  step.status = "completed" \/ (step.status = "failed" /\ step.retries = maxRetries)

\* C22: per-step state machine.  Every assignment that changes a step's
\* status goes pending -> in_progress, in_progress -> completed or
\* in_progress -> failed; a failed step has retries = 3; and the status of a
\* step that is completed, or failed with retries exhausted, is never
\* assigned a different value again, in this or a later executeProject call.
C22_StepStateMachine ==
  [][/\ ex'[1].changes \subseteq StepEdges
     /\ \A k \in 1..Len(ps[1].plan) :
          /\ ps'[1].plan[k].status = "failed" => ps'[1].plan[k].retries = maxRetries
          /\ Terminal(ps[1].plan[k]) => ps'[1].plan[k].status = ps[1].plan[k].status]_vars

\* C23: projects are isolated.  With two registered projects, a pipeline step, a
\* build, an approval or a rejection acting on one of them leaves every field of the
\* other's ProjectState as it was, under every interleaving of the two pipelines
\* (last.order is the project the turn just taken acted on).
C23_ProjectsIsolated ==
  [][\A b \in Pair : last'.order # b => ps'[b] = ps[b]]_vars

\* The first project went through its pipeline and an approval while the second
\* one, registered too, finished its own pipeline and still waits.
C23_Witness ==
  /\ Pair \subseteq registered
  /\ ps[1].status = "completed"
  /\ ps[2].status = "awaiting_approval"
  /\ pipe[2].pc = "done"

\* C24: when a production deployment fails during approveDeployment, the project
\* is kept in status awaiting_approval.  A call ends with a failed deployment when
\* it answers failure out of a deployment it awaited or out of the error report
\* about "Some deployments failed".
C24_FailedDeploymentKeepsAwaiting ==
  [][\A c \in ApproveCalls :
       ( /\ calls[c].pc \in {"deployWeb", "deployAndroid", "liveStripe", "approveErrorReport"}
         /\ calls'[c].pc = "idle"
         /\ last'.answer = "failure" )
       => ps'[calls[c].order].status = "awaiting_approval"]_vars

\* C25: a step's status becomes completed only after runSixEyes was run on the
\* step's artifact and all its checks passed: at the turn that completes a step, a
\* Six Eyes call has finished with overallPassed.
C25_CompletedOnlyAfterSixEyes ==
  [][\A i \in 1..Len(ps[1].plan) :
       (ps[1].plan[i].status # "completed" /\ ps'[1].plan[i].status = "completed")
       => (sx'.pc = "done" /\ sx'.overallPassed)]_vars

\* C26: receiveOrder registers a new ProjectState under the order's id, with
\* status planning, failure streak 0 and an empty plan, and returns it while the
\* pipeline is still running; from then on getProjectStatus finds the project and
\* getStatistics counts it (in total, and under planning when receiveOrder returns).
C26_ReceiveOrderRegisters ==
  [][\A o \in OrderIds :
       /\ (last'.by = "receiveOrder" /\ last'.order = o /\ last' # last) =>
            /\ o \notin registered
            /\ getProjectStatus(o)' = <<ps'[o]>>
            /\ ps'[o].status = "planning"
            /\ ps'[o].failureCount = 0
            /\ ps'[o].plan = << >>
            /\ last'.answer = "state"
            /\ pipe'[o].pc = "plan"
            /\ getStatistics'["total"] = getStatistics["total"] + 1
            /\ getStatistics'["planning"] = getStatistics["planning"] + 1
       /\ o \in registered =>
            /\ getProjectStatus(o)' = <<ps'[o]>>
            /\ getStatistics'["total"] >= getStatistics["total"]
            /\ getStatistics'["total"] >= 1]_vars

\* The second order is received while the first is past planning: two projects
\* are counted, one of them under planning.
C26_Witness ==
  /\ last.by = "receiveOrder"
  /\ last.order = 2
  /\ getStatistics["total"] = 2
  /\ getStatistics["planning"] = 1
  /\ ps[1].status = "awaiting_approval"

\* C27: when executeProject has returned normally, the status differs from failed
\* if and only if every step of the plan is completed (it is then
\* awaiting_approval, for the Orchestrator to go on); otherwise it is failed.
C27_ReturnStatus ==
  ex[1].pc = "returned" =>
    /\ ps[1].status \in {"awaiting_approval", "failed"}
    /\ (ps[1].status # "failed") <=> AllCompleted(ps[1].plan)

\* executeProject returned after completing the last step of a plan of two.
C27_Witness ==
  /\ ex[1].pc = "returned"
  /\ ps[1].status = "awaiting_approval"
  /\ Len(ps[1].plan) >= 2
  /\ ex[1].log # << >>

\* C28: a project has status awaiting_approval only after every plan step is
\* completed and the build of every detected platform has succeeded.
C28_AwaitingApprovalIsEarned ==
  \A o \in registered :
    ps[o].status = "awaiting_approval" =>
      /\ AllCompleted(ps[o].plan)
      /\ ps[o].platforms = detectPlatforms(ps[o].requirements)
      /\ \A platform \in {"web", "android"} :
           Has(ps[o].platforms, platform) => pipe[o][platform] = "ok"

\* Both platforms were detected and really built, after a plan of one step.
C28_Witness ==
  /\ ~mockMode
  /\ ps[1].status = "awaiting_approval"
  /\ Has(ps[1].platforms, "web") /\ Has(ps[1].platforms, "android")
  /\ Len(ps[1].plan) >= 1

\* Positions of the pipeline from which it only reports and returns.
Stopped == {"errorReport", "catchReport", "done"}

\* Positions of the pipeline inside buildAllPlatforms.
Building == {"buildWeb", "buildPackageName", "buildAndroid"}

\* C29: the background pipeline stops at the first failed phase.  The turn in
\* which the Executor returns status failed hands an error report to the Notifier
\* and invokes neither detectPlatforms nor buildAllPlatforms nor
\* sendApprovalRequest; the turn in which the build ends in failure sends an error
\* report and no approval request; and from then on no turn of that pipeline
\* invokes any of them.
C29_StopsAtFirstFailedPhase ==
  [][\A o \in OrderIds :
       LET phases == {"detectPlatforms", "buildAllPlatforms", "sendApprovalRequest"}
       IN /\ ( /\ ex[o].pc # "returned" /\ ex'[o].pc = "returned"
               /\ pipe'[o] # pipe[o]
               /\ ~Has(last'.via, "building") ) =>
                 /\ "sendErrorReport" \in last'.invoked
                 /\ last'.invoked \cap phases = {}
                 /\ pipe'[o].pc = "errorReport"
          /\ ( /\ pipe[o].pc \in Building /\ pipe'[o].pc \notin Building
               /\ ~pipe'[o].overallSuccess ) =>
                 /\ "sendErrorReport" \in last'.invoked
                 /\ "sendApprovalRequest" \notin last'.invoked
                 /\ pipe'[o].pc = "errorReport"
          /\ (pipe[o].pc \in Stopped /\ pipe'[o] # pipe[o]) =>
                 /\ pipe'[o].pc \in Stopped
                 /\ last'.invoked \cap phases = {}]_vars

\* The pipeline is over after the Executor returned failed: no platform was
\* ever detected.
C29_Witness ==
  /\ pipe[1].pc = "done"
  /\ ex[1].pc = "returned"
  /\ ps[1].status = "failed"
  /\ ps[1].platforms = << >>
  /\ ~AllCompleted(ps[1].plan)

INVALID == <<"I", "N", "V", "A", "L", "I", "D">>

\* An answer affirms validity when it says VALID and does not say INVALID.
AffirmsValidity(text) ==
  Includes(toUpperCase(text), VALID) /\ ~Includes(toUpperCase(text), INVALID)

\* C31: when no deny-list pattern matched and the reasoning service was asked,
\* Gate A passes if and only if the answer affirms validity; an answer that
\* declares the code invalid makes Gate A fail.
C31_GateAFollowsAnswer ==
  sx.reply # << >> =>
    (sx.docVerify.passed <=> (~sx.reply[1].threw /\ AffirmsValidity(sx.reply[1].text)))

\* The steps of a plan that are in_progress.
InProgress(plan) == {k \in 1..Len(plan) : plan[k].status = "in_progress"}

\* C32: within one project steps never overlap: at every moment of an
\* executeProject run at most one step is in_progress (the one the run is at), and
\* after a normal return none is.
C32_StepsNeverOverlap ==
  /\ Cardinality(InProgress(ps[1].plan)) <= 1
  /\ ex[1].pc \in {"coder", "stripe"} => InProgress(ps[1].plan) = {ex[1].i}
  /\ ex[1].pc = "returned" => InProgress(ps[1].plan) = {}

\* The run is at the third step, after a failed and a completed one.
C32_Witness ==
  /\ ex[1].pc = "coder"
  /\ ex[1].i = 3
  /\ Len(ps[1].plan) >= 3
  /\ ps[1].plan[1].status = "failed"
  /\ ps[1].plan[2].status = "completed"
  /\ ps[1].plan[3].status = "in_progress"

\* C33: when two approveDeployment calls for the same order overlap, at most one
\* of them gets past the guard and performs production deploys: no two calls of
\* one order wait on a collaborator at the same time.
C33_OneApprovalDeploys ==
  \A c1 \in DOMAIN calls : \A c2 \in DOMAIN calls :
    (c1 # c2 /\ calls[c1].pc # "idle" /\ calls[c2].pc # "idle")
    => calls[c1].order # calls[c2].order

\* C34: a project is completed only if the production deploy of every detected
\* platform succeeded: while the call that deployed it has a failed web or android
\* deploy on record, the project is not completed.
C34_CompletedOnlyIfDeployed ==
  \A c \in DOMAIN calls :
    ( /\ calls[c].pc # "idle"
      /\ "failed" \in {calls[c].deployed.web, calls[c].deployed.android} )
    => ps[calls[c].order].status # "completed"

\* C35: completed is a terminal status: once a project is completed its status
\* never changes again, whatever approveDeployment, rejectDeployment and the rest
\* of the background pipeline do.
C35_CompletedIsTerminal ==
  [][\A o \in OrderIds : ps[o].status = "completed" => ps'[o].status = "completed"]_vars

\* The Coder, build and deploy collaborators.
WorkCalls ==
  {"generateCode", "automatePaymentSetup", "buildAllPlatforms", "deployAndVerify",
   "getPackageName", "verifyAndDeploy"} \cup Deploys

\* C36: failed is a terminal status: once a project is failed its status never
\* changes again and no turn taken for it makes a Coder, build or deploy call.
C36_FailedIsTerminal ==
  [][\A o \in OrderIds :
       ps[o].status = "failed" =>
         /\ ps'[o].status = "failed"
         /\ (last'.order = o /\ last' # last) => last'.invoked \cap WorkCalls = {}]_vars

\* The sum of the per-status counts of getStatistics.
RECURSIVE SumOver(_, _)
SumOver(counts, keys) ==
  IF keys = {} THEN 0
  ELSE LET k == CHOOSE x \in keys : TRUE
       IN counts[k] + SumOver(counts, keys \ {k})

\* C37: getStatistics partitions the registry by status: the total equals the sum
\* of the per-status counts.
C37_StatisticsPartition ==
  getStatistics["total"] = SumOver(getStatistics, CountedStatuses)

\* The gates whose result in the SixEyesResult has passed = false.
FailedGates(x) == {g \in {"docVerify", "syntaxGate", "visualProof"} : ~x[g].passed}

\* C38: in every SixEyesResult at most one gate result has passed = false, a
\* gate skipped by the short-circuit is reported with passed = true, and
\* overallPassed is false exactly when one gate result has passed = false.
C38_AtMostOneFailedGate ==
  sx.pc = "done" =>
    /\ Cardinality(FailedGates(sx)) <= 1
    /\ \A g \in {"docVerify", "syntaxGate", "visualProof"} : ~sx[g].ran => sx[g].passed
    /\ ~sx.overallPassed <=> Cardinality(FailedGates(sx)) = 1

\* The syntax check failed and the visual check was skipped.
C38_Witness ==
  /\ sx.pc = "done"
  /\ sx.docVerify.passed
  /\ ~sx.syntaxGate.passed
  /\ ~sx.visualProof.ran /\ sx.visualProof.passed
  /\ ~sx.overallPassed

\* C39: for every requirements text detectPlatforms returns a non-empty list
\* without duplicates whose elements are among web and android, with web
\* before android when both are present.
C39_PlatformsWellFormed ==
  \A t \in {ps[1].requirements} :
    LET platforms == detectPlatforms(t)
        at(x) == {k \in 1..Len(platforms) : platforms[k] = x}
    IN /\ Len(platforms) >= 1
       /\ \A k \in 1..Len(platforms) : platforms[k] \in {"web", "android"}
       /\ \A j, k \in 1..Len(platforms) : platforms[j] = platforms[k] => j = k
       /\ \A j \in at("web"), k \in at("android") : j < k
       /\ ps[1].platforms \in {<< >>, platforms}

\* Both platforms were detected, from a text that names neither "web" nor "android".
C39_Witness ==
  /\ ps[1].platforms = <<"web", "android">>
  /\ ps[1].requirements = <<"s", "h", "o", "p", " ", "a", "p", "p">>

\* The five homeostatic factors of ConsciousnessState.
Factors == {"uncertainty", "confidence", "resolve", "willpower", "guilt"}

\* C40: after any sequence of processStimulus calls with magnitudes in [0, 1]
\* each of the five homeostatic factors stays within 0.0 to 1.0.
C40_FactorsInRange ==
  \A f \in Factors : state[f] >= 0 /\ state[f] <= One

\* The four factors that every handler clamps stay within 0.0 to 1.0, and
\* resolve never drops below its baseline.
ClampedFactorsInRange ==
  /\ \A f \in Factors \ {"resolve"} : state[f] >= 0 /\ state[f] <= One
  /\ state.resolve >= Baseline.resolve

====
